---- MODULE Spec2Model ----
(* Model of src/users.py: the UserHandler cog that replays the user log     *)
(* files at start-up and then tails the active file every two seconds.      *)
EXTENDS Integers, Sequences, FiniteSets, TLC

(***************************************************************************)
(* Bounds of the model.                                                    *)
(***************************************************************************)
\* timestamps of log lines are 1..MaxTime; 0 is datetime(1, 1, 1)
MaxTime == 2
\* greatest number of lines of the active file
MaxFile == 2
\* greatest number of lines of the history replayed at start-up
MaxHist == 2
\* greatest number of notifications delivered before a send that fails
MaxSent == 2

Names == {"Alice", "Bob"}
NoName == "-"
None == "None"
\* self.onlineCount = None: a value no count equals
NoCount == -1

\* User.lastSeen default, datetime(1, 1, 1): earlier than every log timestamp
MinTime == 0
\* User.lastLocation default
DefaultLocation == <<0, 0>>

Times == 1..MaxTime
Locs == {<<5, 5>>, <<6, 6>>}

(***************************************************************************)
(* Log lines.  A line is what splitLine makes of it: ok says whether the   *)
(* bracket and the timestamp parse; the message is described by what       *)
(* handleLog looks at: the two markers, the quoted name, the number of     *)
(* comma-separated numbers that follow the opening parenthesis of the      *)
(* location group, and whether a closing parenthesis follows the last one. *)
(***************************************************************************)
Msg(d, c, n, k, z, l) ==
    [disc |-> d, conn |-> c, quoted |-> n, coords |-> k, closed |-> z, loc |-> l]

\* '"Alice" disconnected player (6,6,0).'
DiscMsg(n, l) == Msg(TRUE, FALSE, n, 3, TRUE, l)
\* '"Alice" fully connected (5,5,0).'
ConnMsg(n, l) == Msg(FALSE, TRUE, n, 3, TRUE, l)
OtherMsg == Msg(FALSE, FALSE, NoName, 0, FALSE, DefaultLocation)
\* the marker is there, the name/coordinate pattern is not
DiscBadMsg == Msg(TRUE, FALSE, NoName, 0, FALSE, DefaultLocation)
ConnBadMsg == Msg(FALSE, TRUE, NoName, 0, FALSE, DefaultLocation)
\* '"Alice" disconnected player (6,6,0,7).': a fourth number
DiscLongMsg(n, l) == Msg(TRUE, FALSE, n, 4, TRUE, l)
\* '"Alice" disconnected player (6,6,0': no closing parenthesis
DiscOpenMsg(n, l) == Msg(TRUE, FALSE, n, 3, FALSE, l)
\* '"Alice" fully connected (5,5': two numbers and no closing parenthesis
ConnShortMsg(n, l) == Msg(FALSE, TRUE, n, 2, FALSE, l)
\* '"Alice" disconnected player fully connected (6,6,0).': both markers
BothMsg(n, l) == Msg(TRUE, TRUE, n, 3, TRUE, l)

EventMsgs == {DiscMsg(n, l) : n \in Names, l \in Locs} \cup {ConnMsg(n, l) : n \in Names, l \in Locs}
BadMsgs == {DiscBadMsg, ConnBadMsg}

Line(t, m) == [ok |-> TRUE, ts |-> t, msg |-> m]
\* a line without closing bracket or with an unparseable timestamp
BadLine == [ok |-> FALSE, ts |-> MinTime, msg |-> OtherMsg]

\* the scenario of the log: a connect is logged at (5,5), a disconnect at (6,6)
FileMsgs == {DiscMsg(n, <<6, 6>>) : n \in Names} \cup {ConnMsg(n, <<5, 5>>) : n \in Names}
               \cup {OtherMsg, DiscBadMsg}
FileLines == {Line(t, m) : t \in Times, m \in FileMsgs} \cup {BadLine}


(***************************************************************************)
(* State.                                                                  *)
(***************************************************************************)
VARIABLES
    pc,                  \* "start": in __init__ before loadHistory; "idle": between ticks;
                         \* "send" / "presence": update suspended at an await;
                         \* "stopped": update raised and the loop ended;
                         \* "crashed": __init__ raised, the loop was never started
    users,               \* self.users: name -> User
    lastUpdateTimestamp, \* self.lastUpdateTimestamp, the watermark
    onlineCount,         \* self.onlineCount (None or a number)
    notifyDisconnect,    \* self.notifyDisconnect
    channel,             \* self.bot.channel (None or a channel)
    histFiles,           \* the files loadHistory finds, in mtime order
    fileState,           \* the active file: "absent", "unreadable" or "ok"
    fileLines,           \* the lines of the active file, first to last
    cycle,               \* locals of the current (or latest) run of update
    outcome,             \* how the latest run of update ended
    sent,                \* the calls of bot.channel.send, in order
    presence,            \* counts passed to bot.change_presence, in order
    probe                \* what a specification observes besides the program's state: the
                         \* handleLog call under test, the command handled last, the
                         \* marks of the lines, the results of the two loops on a batch

vars == <<pc, users, lastUpdateTimestamp, onlineCount, notifyDisconnect, channel,
          histFiles, fileState, fileLines, cycle, outcome, sent, presence, probe>>

(***************************************************************************)
(* User and UserHandler.getUser                                            *)
(***************************************************************************)
\* User(name): the dataclass defaults that handleLog reads or writes
User == [online |-> FALSE, lastSeen |-> MinTime, lastLocation |-> DefaultLocation]

\* getUser: the store after the lookup, with the user created if missing
getUser(us, name) == IF name \in DOMAIN us THEN us ELSE us @@ (name :> User)

\* IsNew with >= for >
IsNewOrEqual(timestamp, watermark) == timestamp >= watermark

\* timestamp > self.lastUpdateTimestamp
IsNew(timestamp, watermark) == timestamp > watermark

(***************************************************************************)
(* UserHandler.handleLog                                                   *)
(***************************************************************************)
NoMessage == <<>>
LeftMessage(name) == <<"left", name>>

\* re.search(r"\"(.*)\".*\((\d+),(\d+),\d+\)", message) is not None
MatchDisconnect(message) ==
    message.quoted # NoName /\ message.coords = 3 /\ message.closed
\* re.search(r"\"(.*)\".*\((\d+),(\d+)", message) is not None
MatchConnect(message) == message.quoted # NoName /\ message.coords >= 2

\* Seen without the guard on lastSeen: the event applied last wins
SeenLastWrite(us, name, timestamp, isOnline, loc) ==
    [getUser(us, name) EXCEPT
        ![name] = [online |-> isOnline, lastSeen |-> timestamp, lastLocation |-> loc]]

\* Seen taking an event for a change of presence, and one as old as lastSeen for new
SeenToggle(us, name, timestamp, isOnline, loc) ==
    LET us1 == getUser(us, name) IN
    IF timestamp >= us1[name].lastSeen
    THEN [us1 EXCEPT ![name] = [online |-> ~us1[name].online, lastSeen |-> timestamp,
                                 lastLocation |-> loc]]
    ELSE us1

\* the monotonic update of lines 99-102 and 112-115
Seen(us, name, timestamp, isOnline, loc) ==
    LET us1 == getUser(us, name) IN
    IF timestamp > us1[name].lastSeen
    THEN [us1 EXCEPT ![name] = [online |-> isOnline, lastSeen |-> timestamp, lastLocation |-> loc]]
    ELSE us1

\* Departure without the test of self.notifyDisconnect
DepartureAlways(name, watermark, notify, timestamp) ==
    IF IsNew(timestamp, watermark) THEN LeftMessage(name) ELSE NoMessage

\* lines 103-106: what the disconnect branch returns
Departure(name, watermark, notify, timestamp) ==
    IF IsNew(timestamp, watermark) /\ notify THEN LeftMessage(name) ELSE NoMessage

\* handleLog: the store after the call, the returned message, and whether the
\* call raised (matches is None: AttributeError on matches.group)
handleLog(us, watermark, notify, timestamp, message) ==
    IF message.disc
    THEN IF ~MatchDisconnect(message)
         THEN [users |-> us, ret |-> NoMessage, raised |-> TRUE]
         ELSE [users |-> Seen(us, message.quoted, timestamp, FALSE, message.loc),
               ret |-> Departure(message.quoted, watermark, notify, timestamp),
               raised |-> FALSE]
    ELSE IF message.conn
    THEN IF ~MatchConnect(message)
         THEN [users |-> us, ret |-> NoMessage, raised |-> TRUE]
         ELSE [users |-> Seen(us, message.quoted, timestamp, TRUE, message.loc),
               ret |-> NoMessage, raised |-> FALSE]
    ELSE [users |-> us, ret |-> NoMessage, raised |-> FALSE]

(***************************************************************************)
(* UserHandler.update: the for loop over FileReadBackwards (lines 58-68).  *)
(* Scan reads lines[pos], lines[pos-1], ... until the loop suspends at     *)
(* await self.bot.channel.send ("send"), raises ("raise"), or ends by      *)
(* break or exhaustion ("done").  pos is the line read last.               *)
(***************************************************************************)
\* NewTimestamp without the comparison: the timestamp read last
NewTimestampLast(timestamp, newTimestamp) == timestamp

\* lines 61-62: the greatest timestamp read so far
NewTimestamp(timestamp, newTimestamp) ==
    IF timestamp > newTimestamp THEN timestamp ELSE newTimestamp

RECURSIVE Scan(_, _, _, _)
Scan(lines, pos, newTimestamp, us) ==
    IF pos = 0
    THEN [out |-> "done", pos |-> 0, newTimestamp |-> newTimestamp, users |-> us]
    ELSE LET line == lines[pos]
             nt == NewTimestamp(line.ts, newTimestamp)
             r == handleLog(us, lastUpdateTimestamp, notifyDisconnect, line.ts, line.msg)
         IN  IF ~line.ok
             THEN \* splitLine raises ValueError
                  [out |-> "raise", pos |-> pos, newTimestamp |-> newTimestamp, users |-> us]
             ELSE IF IsNew(line.ts, lastUpdateTimestamp)
             THEN IF r.raised
                  THEN [out |-> "raise", pos |-> pos, newTimestamp |-> nt, users |-> r.users]
                  ELSE IF r.ret # NoMessage /\ channel # None
                  THEN [out |-> "send", pos |-> pos, newTimestamp |-> nt, users |-> r.users]
                  ELSE Scan(lines, pos - 1, nt, r.users)
             ELSE \* break
                  [out |-> "done", pos |-> pos, newTimestamp |-> nt, users |-> us]

\* len([user for user in self.users if self.users[user].online])
OnlineCount(us) == Cardinality({n \in DOMAIN us : us[n].online})

NoCycle == [lines |-> <<>>, start |-> MinTime, pos |-> 0, newTimestamp |-> MinTime, count |-> 0]

\* Activity without the comparison with self.onlineCount
ActivityAlways(us, cyc) ==
    /\ presence' = Append(presence, OnlineCount(us))
    /\ cycle' = [cyc EXCEPT !.count = OnlineCount(us)]
    /\ pc' = "presence"

\* lines 72-79 up to the await: the presence update is requested when the count
\* differs from self.onlineCount, and update suspends until it is done
Activity(us, cyc) ==
    LET count == OnlineCount(us) IN
    IF count # onlineCount
    THEN /\ presence' = Append(presence, count)
         /\ cycle' = [cyc EXCEPT !.count = count]
         /\ pc' = "presence"
    ELSE /\ presence' = presence
         /\ cycle' = [cyc EXCEPT !.count = count]
         /\ pc' = "idle"

\* bot.channel.send(message) for the line at pos, as the sink sees it
Sending(lines, pos) ==
    [pos |-> pos, line |-> lines[pos], watermark |-> lastUpdateTimestamp]

\* what update does with the result r of a Scan over the snapshot cyc.lines
Batch(r, cyc) ==
    LET cyc1 == [cyc EXCEPT !.pos = r.pos, !.newTimestamp = r.newTimestamp] IN
    /\ users' = r.users
    /\ CASE r.out = "raise" ->
              \* the exception leaves update: tasks.loop ends the loop
              /\ pc' = "stopped"
              /\ outcome' = "raised"
              /\ cycle' = cyc1
              /\ UNCHANGED <<lastUpdateTimestamp, sent, presence>>
         [] r.out = "send" ->
              /\ pc' = "send"
              /\ outcome' = "running"
              /\ cycle' = cyc1
              /\ sent' = Append(sent, Sending(cyc.lines, r.pos))
              /\ UNCHANGED <<lastUpdateTimestamp, presence>>
         [] r.out = "done" ->
              /\ lastUpdateTimestamp' = r.newTimestamp
              /\ outcome' = "completed"
              /\ sent' = sent
              /\ Activity(r.users, cyc1)
    /\ UNCHANGED <<onlineCount, notifyDisconnect, channel, histFiles, fileState, fileLines>>

\* a tick with no file matching logPath/*user.txt
TickNoFile ==
    /\ pc = "idle"
    /\ fileState = "absent"
    /\ outcome' = "nofile"
    /\ Activity(users, NoCycle)
    /\ UNCHANGED <<users, lastUpdateTimestamp, onlineCount, notifyDisconnect, channel,
                   histFiles, fileState, fileLines, sent, probe>>

\* a tick where opening files[0] raises OSError: tasks.loop catches it and
\* runs update again at a later tick
TickOpenFails ==
    /\ pc = "idle"
    /\ fileState = "unreadable"
    /\ outcome' = "oserror"
    /\ cycle' = NoCycle
    /\ UNCHANGED <<pc, users, lastUpdateTimestamp, onlineCount, notifyDisconnect, channel,
                   histFiles, fileState, fileLines, sent, presence, probe>>

\* the snapshot a tick takes of the file (FileReadBackwards reads up to the
\* size the file had when it was opened) and the watermark it starts from
Snapshot == [NoCycle EXCEPT !.lines = fileLines, !.start = lastUpdateTimestamp]

\* the scan of a tick, from the last line of the file
TickResult == Scan(fileLines, Len(fileLines), lastUpdateTimestamp, users)

\* the scan resumed after a send, from the line before the one notified
SendResult == Scan(cycle.lines, cycle.pos - 1, cycle.newTimestamp, users)

\* a tick that opens the file and reads it backwards
TickScan ==
    /\ pc = "idle"
    /\ fileState = "ok"
    /\ Batch(TickResult, Snapshot)
    /\ UNCHANGED probe

\* await self.bot.channel.send(message) returns and the for loop goes on
SendDone ==
    /\ pc = "send"
    /\ Batch(SendResult, cycle)
    /\ UNCHANGED probe

\* await self.bot.change_presence(...) returns: self.onlineCount = onlineCount
PresenceDone ==
    /\ pc = "presence"
    /\ onlineCount' = cycle.count
    /\ pc' = "idle"
    /\ UNCHANGED <<users, lastUpdateTimestamp, notifyDisconnect, channel, histFiles,
                   fileState, fileLines, cycle, outcome, sent, presence, probe>>

(***************************************************************************)
(* UserHandler.loadHistory, called by __init__                             *)
(***************************************************************************)
\* for line in f: self.handleLog(*self.splitLine(line))
RECURSIVE ReplayLines(_, _, _)
ReplayLines(lines, i, us) ==
    IF i > Len(lines)
    THEN [users |-> us, raised |-> FALSE]
    ELSE LET line == lines[i]
             r == handleLog(us, lastUpdateTimestamp, notifyDisconnect, line.ts, line.msg)
         IN  IF ~line.ok
             THEN [users |-> us, raised |-> TRUE]
             ELSE IF r.raised
             THEN [users |-> r.users, raised |-> TRUE]
             ELSE ReplayLines(lines, i + 1, r.users)

\* for file in files: with open(file) as f: ...
RECURSIVE ReplayFiles(_, _, _)
ReplayFiles(files, k, us) ==
    IF k > Len(files)
    THEN [users |-> us, raised |-> FALSE]
    ELSE IF ~files[k].readable
    THEN \* open raises OSError
         [users |-> us, raised |-> TRUE]
    ELSE LET r == ReplayLines(files[k].lines, 1, us)
         IN  IF r.raised THEN r ELSE ReplayFiles(files, k + 1, r.users)

\* the greatest timestamp of the lines of files, or t
RECURSIVE LatestIn(_, _, _)
LatestIn(files, k, t) ==
    IF k > Len(files)
    THEN t
    ELSE LET ts == {t} \cup {files[k].lines[i].ts : i \in 1..Len(files[k].lines)}
         IN  LatestIn(files, k + 1, CHOOSE x \in ts : \A y \in ts : y <= x)

\* loadHistory moving the watermark to the latest line it replayed
loadHistoryAdvancing ==
    /\ pc = "start"
    /\ LET r == ReplayFiles(histFiles, 1, users)
       IN  /\ users' = r.users
           /\ pc' = IF r.raised THEN "crashed" ELSE "idle"
    /\ lastUpdateTimestamp' = LatestIn(histFiles, 1, lastUpdateTimestamp)
    /\ UNCHANGED <<onlineCount, notifyDisconnect, channel, histFiles,
                   fileState, fileLines, cycle, outcome, sent, presence, probe>>

\* __init__ from line 35 on: loadHistory, then update.start(); an exception of
\* loadHistory leaves __init__ before the loop is started
loadHistory ==
    /\ pc = "start"
    /\ LET r == ReplayFiles(histFiles, 1, users)
       IN  /\ users' = r.users
           /\ pc' = IF r.raised THEN "crashed" ELSE "idle"
    /\ UNCHANGED <<lastUpdateTimestamp, onlineCount, notifyDisconnect, channel, histFiles,
                   fileState, fileLines, cycle, outcome, sent, presence, probe>>

(***************************************************************************)
(* The environment: the server that writes the log.                        *)
(***************************************************************************)
Running == pc \in {"idle", "send", "presence"}

\* the server appends a line to the active file
Written(l) ==
    /\ Running
    /\ fileState # "absent"
    /\ Len(fileLines) < MaxFile
    /\ fileLines' = Append(fileLines, l)
    /\ UNCHANGED <<pc, users, lastUpdateTimestamp, onlineCount, notifyDisconnect, channel,
                   histFiles, fileState, cycle, outcome, sent, presence>>

WriteLine(l) ==
    /\ Written(l)
    /\ UNCHANGED probe

\* the active file is created, or stops or starts being readable
SetFileState(s) ==
    /\ pc = "idle"
    /\ \/ fileState = "absent" /\ s = "ok"
       \/ fileState = "ok" /\ s = "unreadable"
       \/ fileState = "unreadable" /\ s = "ok"
    /\ fileState' = s
    /\ UNCHANGED <<pc, users, lastUpdateTimestamp, onlineCount, notifyDisconnect, channel,
                   histFiles, fileLines, cycle, outcome, sent, presence, probe>>

(***************************************************************************)
(* The program: __init__ up to line 34, then loadHistory and the loop.     *)
(***************************************************************************)
NoUsers == [n \in {} |-> User]
NoProbe == [stage |-> 0]

UnreadableFile == [readable |-> FALSE, lines |-> <<>>]
LogFile(ls) == [readable |-> TRUE, lines |-> ls]

\* datetime.now() is any instant; DISCONNECTS is unset; the channel is known
InitWith(histories, fileStates) ==
    /\ pc = "start"
    /\ users = NoUsers
    /\ lastUpdateTimestamp \in MinTime..MaxTime
    /\ onlineCount = NoCount
    /\ notifyDisconnect = TRUE
    /\ channel = "channel"
    /\ histFiles \in histories
    /\ fileState \in fileStates
    /\ fileLines = <<>>
    /\ cycle = NoCycle
    /\ outcome = "none"
    /\ sent = <<>>
    /\ presence = <<>>
    /\ probe = NoProbe

\* the tailing of the active file, started on no history or on a history of one line
SeedLines == {Line(MaxTime, ConnMsg("Alice", <<5, 5>>)), BadLine}
SeedHistories == {<<>>} \cup {<<LogFile(<<l>>)>> : l \in SeedLines}

Init == InitWith(SeedHistories, {"absent", "ok"})

Next ==
    \/ loadHistory
    \/ TickNoFile
    \/ TickOpenFails
    \/ TickScan
    \/ SendDone
    \/ PresenceDone
    \/ \E l \in FileLines : WriteLine(l)
    \/ \E s \in {"ok", "unreadable"} : SetFileState(s)

Spec == Init /\ [][Next]_vars

(***************************************************************************)
(* The replay of the history, on every history of at most MaxHist lines   *)
(* or unreadable files, followed by the ticks of a server that has no      *)
(* active file.                                                            *)
(***************************************************************************)
HistLines == FileLines \cup {Line(t, ConnBadMsg) : t \in Times}

\* the first n lines of e laid out in files: how[i] says whether line i goes on
\* in the file of the line before, starts a new file, or is replaced by a
\* file that cannot be opened
RECURSIVE Layout(_, _, _)
Layout(e, how, n) ==
    IF n = 0
    THEN <<>>
    ELSE LET h == Layout(e, how, n - 1)
         IN  IF how[n] = "unreadable"
             THEN Append(h, UnreadableFile)
             ELSE IF how[n] = "newfile" \/ h = <<>> \/ ~h[Len(h)].readable
             THEN Append(h, LogFile(<<e[n]>>))
             ELSE [h EXCEPT ![Len(h)].lines = Append(@, e[n])]

InitHistory ==
    \E n \in 0..MaxHist :
        \E e \in [1..n -> HistLines], how \in [1..n -> {"samefile", "newfile", "unreadable"}] :
            InitWith({Layout(e, how, n)}, {"absent"})

NextHistory ==
    \/ loadHistory
    \/ TickNoFile
    \/ PresenceDone

SpecHistory == InitHistory /\ [][NextHistory]_vars

(***************************************************************************)
(* handleLog on its own: one event applied twice to any store.             *)
(***************************************************************************)
Entities == [online : BOOLEAN, lastSeen : Times, lastLocation : Locs]
Stores == UNION {[S -> Entities] : S \in SUBSET Names}

\* messages whose location group is longer, shorter or not closed, and a
\* message with both markers
OddMsgs ==
    {DiscLongMsg("Alice", <<6, 6>>), DiscOpenMsg("Alice", <<6, 6>>),
     ConnShortMsg("Alice", <<5, 5>>), BothMsg("Alice", <<6, 6>>)}

ProbeMsgs == EventMsgs \cup BadMsgs \cup {OtherMsg} \cup OddMsgs

InitHandle ==
    /\ pc = "handle"
    /\ users \in Stores
    /\ lastUpdateTimestamp \in MinTime..MaxTime
    /\ onlineCount = NoCount
    /\ notifyDisconnect \in BOOLEAN
    /\ channel = "channel"
    /\ histFiles = <<>>
    /\ fileState = "absent"
    /\ fileLines = <<>>
    /\ cycle = NoCycle
    /\ outcome = "none"
    /\ sent = <<>>
    /\ presence = <<>>
    /\ \E t \in Times, m \in ProbeMsgs :
           probe = [stage |-> 0, timestamp |-> t, message |-> m, initial |-> users,
                    before |-> users, ret |-> NoMessage, raised |-> FALSE]

\* self.handleLog(timestamp, message), called a first and a second time
Handle ==
    /\ pc = "handle"
    /\ probe.stage < 2
    /\ LET r == handleLog(users, lastUpdateTimestamp, notifyDisconnect,
                          probe.timestamp, probe.message)
       IN  /\ users' = r.users
           /\ probe' = [probe EXCEPT !.stage = @ + 1, !.before = users,
                                     !.ret = r.ret, !.raised = r.raised]
    /\ UNCHANGED <<pc, lastUpdateTimestamp, onlineCount, notifyDisconnect, channel, histFiles,
                   fileState, fileLines, cycle, outcome, sent, presence>>

NextHandle == Handle

SpecHandle == InitHandle /\ [][NextHandle]_vars

(***************************************************************************)
(* handleLog on its own: connect and disconnect events, the events of one  *)
(* entity at pairwise distinct timestamps, applied to the empty store in   *)
(* any order.                                                              *)
(***************************************************************************)
Events == [timestamp : Times, message : EventMsgs]

InitOrder ==
    /\ pc = "order"
    /\ users = NoUsers
    /\ lastUpdateTimestamp \in MinTime..MaxTime
    /\ onlineCount = NoCount
    /\ notifyDisconnect = TRUE
    /\ channel = "channel"
    /\ histFiles = <<>>
    /\ fileState = "absent"
    /\ fileLines = <<>>
    /\ cycle = NoCycle
    /\ outcome = "none"
    /\ sent = <<>>
    /\ presence = <<>>
    /\ probe = [stage |-> 0, applied |-> {}, late |-> FALSE]

Apply(e) ==
    /\ pc = "order"
    /\ \A f \in probe.applied :
           f.message.quoted = e.message.quoted => f.timestamp # e.timestamp
    /\ users' = handleLog(users, lastUpdateTimestamp, notifyDisconnect,
                          e.timestamp, e.message).users
    /\ probe' = [stage |-> probe.stage + 1, applied |-> probe.applied \cup {e},
                 late |-> probe.late \/ \E f \in probe.applied :
                              /\ f.message.quoted = e.message.quoted
                              /\ f.timestamp > e.timestamp]
    /\ UNCHANGED <<pc, lastUpdateTimestamp, onlineCount, notifyDisconnect, channel, histFiles,
                   fileState, fileLines, cycle, outcome, sent, presence>>

NextOrder == \E e \in Events : Apply(e)

SpecOrder == InitOrder /\ [][NextOrder]_vars

(***************************************************************************)
(* The loop on a server whose active file is there from the start, with no *)
(* history, and whose file can be replaced by a new, empty one (files[0]   *)
(* of a later glob is another file).  A cycle in progress keeps reading    *)
(* the file it opened.                                                     *)
(***************************************************************************)
InitLive == InitWith({<<>>}, {"ok"})

Replaced == [stage |-> 1]

\* the file is replaced once, between two ticks
ReplaceFile ==
    /\ pc = "idle"
    /\ fileState = "ok"
    /\ fileLines # <<>>
    /\ probe = NoProbe
    /\ fileLines' = <<>>
    /\ probe' = Replaced
    /\ UNCHANGED <<pc, users, lastUpdateTimestamp, onlineCount, notifyDisconnect, channel,
                   histFiles, fileState, cycle, outcome, sent, presence>>

\* the disconnects of one player and the lines of the server, at every time
RotateLines ==
    {Line(t, m) : t \in Times, m \in {DiscMsg("Alice", <<6, 6>>), OtherMsg}}

NextRotate ==
    \/ loadHistory
    \/ TickScan
    \/ SendDone
    \/ PresenceDone
    \/ \E l \in RotateLines : WriteLine(l)
    \/ ReplaceFile

SpecRotate == InitLive /\ [][NextRotate]_vars

(***************************************************************************)
(* The loop under every setting of DISCONNECTS and with or without a       *)
(* channel (bot.channel is None when the configured channel is not found), *)
(* on files of lines that parse and match.                                 *)
(***************************************************************************)
WellFormedMsgs == FileMsgs \ {DiscBadMsg}
WellFormedLines == {Line(t, m) : t \in Times, m \in WellFormedMsgs}

\* with a line that has both markers
ToggleLines == WellFormedLines \cup {Line(t, BothMsg("Alice", <<6, 6>>)) : t \in Times}

InitToggle ==
    /\ pc = "start"
    /\ users = NoUsers
    /\ lastUpdateTimestamp \in MinTime..MaxTime
    /\ onlineCount = NoCount
    /\ notifyDisconnect \in BOOLEAN
    /\ channel \in {None, "channel"}
    /\ histFiles = <<>>
    /\ fileState = "ok"
    /\ fileLines = <<>>
    /\ cycle = NoCycle
    /\ outcome = "none"
    /\ sent = <<>>
    /\ presence = <<>>
    /\ probe = NoProbe

NextToggle ==
    \/ loadHistory
    \/ TickScan
    \/ SendDone
    \/ PresenceDone
    \/ \E l \in ToggleLines : WriteLine(l)

SpecToggle == InitToggle /\ [][NextToggle]_vars

(***************************************************************************)
(* The loop with the two commands of the cog, which discord.py runs on the *)
(* same event loop: between two ticks or while update is suspended at one  *)
(* of its awaits.  probe records the command handled last: which one, the  *)
(* name asked for, and where update was.                                   *)
(***************************************************************************)
Query(q, name) == [stage |-> 0, query |-> q, name |-> name, at |-> pc]

\* UserHandler.users: one table row per entity of the store, sent to ctx
usersCommand ==
    /\ Running
    /\ probe' = Query("users", NoName)
    /\ UNCHANGED <<pc, users, lastUpdateTimestamp, onlineCount, notifyDisconnect, channel,
                   histFiles, fileState, fileLines, cycle, outcome, sent, presence>>

\* info looking the name up with getUser
infoCreating(name) ==
    /\ Running
    /\ users' = getUser(users, name)
    /\ probe' = Query("info", name)
    /\ UNCHANGED <<pc, lastUpdateTimestamp, onlineCount, notifyDisconnect, channel,
                   histFiles, fileState, fileLines, cycle, outcome, sent, presence>>

\* UserHandler.info: "if name in self.users" sends the table of the entity,
\* and an unknown name gets no reply
info(name) ==
    /\ Running
    /\ probe' = Query("info", name)
    /\ UNCHANGED <<pc, users, lastUpdateTimestamp, onlineCount, notifyDisconnect, channel,
                   histFiles, fileState, fileLines, cycle, outcome, sent, presence>>

NextQuery ==
    \/ loadHistory
    \/ TickScan
    \/ SendDone
    \/ PresenceDone
    \/ \E l \in RotateLines : WriteLine(l)
    \/ usersCommand
    \/ \E name \in Names : info(name)

SpecQuery == InitLive /\ [][NextQuery]_vars

(***************************************************************************)
(* The loop on an append-only file whose timestamps never decrease, with   *)
(* lines appended between ticks and while update is suspended.  probe      *)
(* keeps, for every line of the file, whether its timestamp was later than *)
(* the watermark when it was appended (fresh) and the number of calls of   *)
(* handleLog on it (count).                                                *)
(***************************************************************************)
NoMarks == [stage |-> 0, marks |-> <<>>]

InitAppend ==
    /\ pc = "start"
    /\ users = NoUsers
    /\ lastUpdateTimestamp \in MinTime..MaxTime
    /\ onlineCount = NoCount
    /\ notifyDisconnect = TRUE
    /\ channel = "channel"
    /\ histFiles = <<>>
    /\ fileState = "ok"
    /\ fileLines = <<>>
    /\ cycle = NoCycle
    /\ outcome = "none"
    /\ sent = <<>>
    /\ presence = <<>>
    /\ probe = NoMarks

WriteOrdered(l) ==
    /\ fileLines # <<>> => l.ts >= fileLines[Len(fileLines)].ts
    /\ Written(l)
    /\ probe' = [probe EXCEPT !.marks =
                    Append(@, [fresh |-> IsNew(l.ts, lastUpdateTimestamp), count |-> 0])]

\* the lines handleLog was called on by a scan of lines that started at line
\* from and gave r: all the lines read, but the one the scan broke at or the
\* one splitLine raised on
Applied(lines, from, r) ==
    IF r.pos = 0 THEN 1..from
    ELSE IF r.out = "done" THEN (r.pos + 1)..from
    ELSE IF r.out = "raise" /\ ~lines[r.pos].ok THEN (r.pos + 1)..from
    ELSE r.pos..from

Marked(lines, from, r) ==
    [probe EXCEPT !.marks =
        [i \in DOMAIN @ |-> IF i \in Applied(lines, from, r)
                            THEN [@[i] EXCEPT !.count = @ + 1] ELSE @[i]]]

TickScanMarked ==
    /\ pc = "idle"
    /\ fileState = "ok"
    /\ Batch(TickResult, Snapshot)
    /\ probe' = Marked(fileLines, Len(fileLines), TickResult)

SendDoneMarked ==
    /\ pc = "send"
    /\ Batch(SendResult, cycle)
    /\ probe' = Marked(cycle.lines, cycle.pos - 1, SendResult)

NextAppend ==
    \/ loadHistory
    \/ TickScanMarked
    \/ SendDoneMarked
    \/ PresenceDone
    \/ \E l \in WellFormedLines : WriteOrdered(l)

SpecAppend == InitAppend /\ [][NextAppend]_vars

(***************************************************************************)
(* The two loops on the same batch of lines from the same store: the loop  *)
(* of loadHistory reads the batch first to last, the loop of update reads  *)
(* it last to first.  Every line of the batch is newer than the watermark  *)
(* and there is no channel, so update reads the whole batch in one go.     *)
(***************************************************************************)
BaseStores == {NoUsers} \cup {[n \in {"Alice"} |-> e] : e \in Entities}

NoResult == [users |-> NoUsers, raised |-> FALSE]

InitBatch ==
    /\ pc = "batch"
    /\ users \in BaseStores
    /\ lastUpdateTimestamp = MinTime
    /\ onlineCount = NoCount
    /\ notifyDisconnect = TRUE
    /\ channel = None
    /\ histFiles = <<>>
    /\ fileState = "ok"
    /\ \E n \in 0..MaxFile : fileLines \in [1..n -> FileLines]
    /\ cycle = NoCycle
    /\ outcome = "none"
    /\ sent = <<>>
    /\ presence = <<>>
    /\ probe = [stage |-> 0, forward |-> NoResult, reverse |-> NoResult]

\* the for loop of loadHistory over the batch
ApplyForward ==
    /\ pc = "batch"
    /\ probe.stage = 0
    /\ probe' = [probe EXCEPT !.stage = 1, !.forward = ReplayLines(fileLines, 1, users)]
    /\ UNCHANGED <<pc, users, lastUpdateTimestamp, onlineCount, notifyDisconnect, channel,
                   histFiles, fileState, fileLines, cycle, outcome, sent, presence>>

\* the for loop of update over the batch
ApplyReverse ==
    /\ pc = "batch"
    /\ probe.stage = 1
    /\ probe' = [probe EXCEPT !.stage = 2,
                              !.reverse = [users |-> TickResult.users,
                                           raised |-> TickResult.out = "raise"]]
    /\ UNCHANGED <<pc, users, lastUpdateTimestamp, onlineCount, notifyDisconnect, channel,
                   histFiles, fileState, fileLines, cycle, outcome, sent, presence>>

NextBatch ==
    \/ ApplyForward
    \/ ApplyReverse

SpecBatch == InitBatch /\ [][NextBatch]_vars

(***************************************************************************)
(* The loop with sends that fail.  tasks.loop catches OSError,             *)
(* aiohttp.ClientError, asyncio.TimeoutError, ConnectionClosed and         *)
(* GatewayNotFound raised by update and runs update again after a delay;   *)
(* any other exception (discord.HTTPException) ends the loop.  Either way  *)
(* the exception leaves update at the await, before line 69.               *)
(***************************************************************************)
\* the notifications delivered: all of sent but the one whose send raised
Delivered == SubSeq(sent, 1, Len(sent) - 1)

\* await self.bot.channel.send(message) raises an exception tasks.loop retries
SendFails ==
    /\ pc = "send"
    /\ Len(sent) <= MaxSent
    /\ pc' = "idle"
    /\ outcome' = "retried"
    /\ sent' = Delivered
    /\ UNCHANGED <<users, lastUpdateTimestamp, onlineCount, notifyDisconnect, channel,
                   histFiles, fileState, fileLines, cycle, presence, probe>>

\* await self.bot.channel.send(message) raises an exception that ends the loop
SendRaises ==
    /\ pc = "send"
    /\ pc' = "stopped"
    /\ outcome' = "raised"
    /\ sent' = Delivered
    /\ UNCHANGED <<users, lastUpdateTimestamp, onlineCount, notifyDisconnect, channel,
                   histFiles, fileState, fileLines, cycle, presence, probe>>

\* the disconnects of the players, and a line that does not parse
SendLines == {Line(t, DiscMsg(n, <<6, 6>>)) : t \in Times, n \in Names} \cup {BadLine}

NextSend ==
    \/ loadHistory
    \/ TickScan
    \/ SendDone
    \/ SendFails
    \/ SendRaises
    \/ PresenceDone
    \/ \E l \in SendLines : WriteLine(l)

SpecSend == InitLive /\ [][NextSend]_vars

(***************************************************************************)
(* Properties.                                                             *)
(***************************************************************************)
MaxOf(S) == CHOOSE x \in S : \A y \in S : y <= x

\* the lines of the file that are newer than the watermark
NewLines(lines, watermark) ==
    {i \in 1..Len(lines) : lines[i].ok /\ lines[i].ts > watermark}

\* the lines at the end of the file that are all newer than the watermark: what
\* the backward scan reads before its first line at or before the watermark
TailLines(lines, watermark) ==
    {i \in 1..Len(lines) : \A j \in i..Len(lines) : lines[j].ok /\ lines[j].ts > watermark}

TimesOf(lines, idx) == {lines[i].ts : i \in idx}

\* C1, as claimed: after a completed cycle the watermark is the greatest
\* timestamp among all the lines of the file that exceeded the watermark held
\* at the start of the cycle (unchanged if there is none), for every file.
C1_WatermarkIsMaxOfFile ==
    outcome = "completed" =>
        lastUpdateTimestamp =
            MaxOf({cycle.start} \cup TimesOf(cycle.lines, NewLines(cycle.lines, cycle.start)))

\* C1, amended: after a completed cycle the watermark is the greatest timestamp
\* among the lines at the end of the file that are all newer than the watermark
\* held at the start of the cycle, and is unchanged if the last line is not newer.
C1_WatermarkIsMaxOfTail ==
    outcome = "completed" =>
        lastUpdateTimestamp =
            MaxOf({cycle.start} \cup TimesOf(cycle.lines, TailLines(cycle.lines, cycle.start)))

\* a cycle completed on a file of an old line followed by newer ones, and
\* advanced the watermark
C1_Witness ==
    /\ outcome = "completed"
    /\ lastUpdateTimestamp > cycle.start
    /\ \E i \in 1..Len(cycle.lines) : cycle.lines[i].ok /\ cycle.lines[i].ts <= cycle.start
    /\ TailLines(cycle.lines, cycle.start) # {}

\* C2: every notification sent, in a first or in a later cycle, was for a line
\* newer than the watermark in force when the line was processed: a line at or
\* before that watermark never produces a notification.
C2_NoStaleNotification ==
    \A i \in 1..Len(sent) : sent[i].line.ts > sent[i].watermark

\* a later cycle read a notified line again, found it at or before the
\* watermark and completed
C2_Witness ==
    /\ outcome = "completed"
    /\ \E i \in 1..Len(sent) :
           /\ cycle.pos = sent[i].pos
           /\ cycle.start > sent[i].watermark
           /\ cycle.start >= sent[i].line.ts
    /\ Len(sent) = 1

(***************************************************************************)
(* C3                                                                      *)
(***************************************************************************)
NamesOf(S) == {e.message.quoted : e \in S}
LatestOf(S, n) ==
    CHOOSE e \in S : /\ e.message.quoted = n
                     /\ \A f \in S : f.message.quoted = n => f.timestamp <= e.timestamp

\* the store after handleLog has applied the events of S in chronological order
RECURSIVE Chronological(_)
Chronological(S) ==
    IF S = {}
    THEN NoUsers
    ELSE LET e == CHOOSE x \in S : \A y \in S : y.timestamp <= x.timestamp
         IN  handleLog(Chronological(S \ {e}), lastUpdateTimestamp, notifyDisconnect,
                       e.timestamp, e.message).users

\* C3: whatever the order in which handleLog applied a set of connect and
\* disconnect events (pairwise distinct timestamps per entity), every entity
\* is in the state that the chronological order gives it: online, lastSeen
\* and lastLocation of its event with the greatest timestamp.
C3_OrderIndependent ==
    /\ users = Chronological(probe.applied)
    /\ DOMAIN users = NamesOf(probe.applied)
    /\ \A n \in DOMAIN users :
           LET e == LatestOf(probe.applied, n)
           IN  users[n] = [online |-> e.message.conn, lastSeen |-> e.timestamp,
                           lastLocation |-> e.message.loc]

\* an entity got an event older than one applied before, of the other kind
C3_Witness ==
    /\ probe.late
    /\ \E e \in probe.applied, f \in probe.applied :
           /\ e.message.quoted = f.message.quoted
           /\ e.message.conn # f.message.conn
    /\ Cardinality(probe.applied) >= MaxTime

\* C4: a connect or disconnect event applied a second time with the same
\* timestamp leaves the store as the first application left it.
C4_Idempotent ==
    (probe.stage = 2 /\ probe.message \in EventMsgs) => users = probe.before

\* an event was applied twice, and its first application changed an entity
\* that existed
C4_Witness ==
    /\ probe.stage = 2
    /\ probe.message \in EventMsgs
    /\ probe.message.quoted \in DOMAIN probe.initial
    /\ probe.before # probe.initial
    /\ users = probe.before

\* C5: loadHistory leaves the watermark as it was, sends no notification and
\* requests no presence update, whatever the history holds.
C5_HistoryOnlySeedsState ==
    [][pc = "start" => /\ lastUpdateTimestamp' = lastUpdateTimestamp
                       /\ sent' = sent
                       /\ presence' = presence]_vars

\* the history was replayed, and it held a disconnect later than the watermark
C5_Witness ==
    /\ pc = "idle"
    /\ outcome = "none"
    /\ \E n \in DOMAIN users : users[n].lastSeen > lastUpdateTimestamp /\ ~users[n].online
    /\ sent = <<>>

\* C6: a cycle that reads a line whose bracket or timestamp does not parse
\* skips the line and goes on: it does not end on that line with an exception,
\* the batch left unfinished and the watermark not advanced.
C6_MalformedLineSkipped ==
    ~(/\ outcome = "raised"
      /\ ~cycle.lines[cycle.pos].ok)

\* C7: handleLog, given a message with the "disconnected" or "fully connected"
\* marker that the name/coordinate pattern does not match, raises nothing,
\* changes no entity and returns no notification.
C7_UnmatchedMarkerSkipped ==
    (probe.stage >= 1 /\ probe.message \in BadMsgs) =>
        /\ ~probe.raised
        /\ users = probe.before
        /\ probe.ret = NoMessage

\* the store that the replay of the files gives when it skips the files that
\* cannot be opened and the lines that handleLog or splitLine cannot take
RECURSIVE SkippingLines(_, _, _)
SkippingLines(lines, i, us) ==
    IF i > Len(lines)
    THEN us
    ELSE LET r == handleLog(us, lastUpdateTimestamp, notifyDisconnect, lines[i].ts, lines[i].msg)
         IN  SkippingLines(lines, i + 1, IF lines[i].ok /\ ~r.raised THEN r.users ELSE us)

RECURSIVE SkippingFiles(_, _, _)
SkippingFiles(files, k, us) ==
    IF k > Len(files)
    THEN us
    ELSE SkippingFiles(files, k + 1,
                       IF files[k].readable THEN SkippingLines(files[k].lines, 1, us) ELSE us)

\* C8: loadHistory completes on every history and the loop is started, the
\* store holding every line that parses of every file that opens.
C8_HistoryNotFatal ==
    pc # "start" =>
        /\ pc # "crashed"
        /\ outcome = "none" => users = SkippingFiles(histFiles, 1, NoUsers)

\* C9: after a cycle that hit an error (the file could not be opened, or the
\* batch raised) the loop is still running and waits for its next tick.
C9_LoopSurvivesCycleErrors ==
    outcome \in {"oserror", "raised"} => pc = "idle"

\* the number of entities online when the loop was started
StartCount == OnlineCount(ReplayFiles(histFiles, 1, NoUsers).users)

\* the counts before each presence update, from the value first, and after
Changes(first) == <<first>> \o presence

\* C10, as claimed: every presence update carries a count that differs from the
\* count at the tick before (at start-up, for the first cycle): from zero
\* entities online, the counts 0 -> 1 -> 2 give two updates.
C10_UpdateOnlyOnChange ==
    \A i \in 1..Len(presence) : Changes(StartCount)[i] # Changes(StartCount)[i + 1]

\* C10, amended: a cycle that reaches line 72 requests a presence update if and
\* only if the count of online entities differs from self.onlineCount, which
\* is None until the first update and then the count of the update before; the
\* update carries the new count.  So the first such cycle always requests one.
C10_PresenceOnChange ==
    /\ \A i \in 1..Len(presence) : Changes(NoCount)[i] # Changes(NoCount)[i + 1]
    /\ (pc = "idle" /\ outcome \in {"completed", "nofile"}) =>
           /\ presence # <<>>
           /\ presence[Len(presence)] = OnlineCount(users)
           /\ onlineCount = OnlineCount(users)
    /\ pc = "presence" =>
           /\ presence # <<>>
           /\ presence[Len(presence)] = OnlineCount(users)
           /\ onlineCount # OnlineCount(users)

\* from no entity online, two entities connected in two later cycles: three
\* presence updates
C10_Witness ==
    /\ pc = "idle"
    /\ outcome = "completed"
    /\ StartCount = 0
    /\ presence = <<0, 1, 2>>
    /\ onlineCount = 2

\* C11: in every step, of the replay of the history and of any cycle, every
\* entity of the store stays in the store, its lastSeen does not decrease,
\* and an entity whose lastSeen stays (the events it got were at or before
\* its lastSeen) keeps its online and its lastLocation.
C11_EntityMonotonic ==
    [][\A n \in DOMAIN users :
           /\ n \in DOMAIN users'
           /\ users'[n].lastSeen >= users[n].lastSeen
           /\ users'[n].lastSeen = users[n].lastSeen => users'[n] = users[n]]_vars

\* a cycle applied a disconnect older than the lastSeen of its entity, which
\* the history had seen connect: the entity is still online where it was
C11_Witness ==
    /\ outcome = "completed"
    /\ histFiles # <<>>
    /\ Len(cycle.lines) = 1
    /\ cycle.pos = 0
    /\ \E n \in DOMAIN users :
           /\ cycle.lines[1].msg = DiscMsg(n, <<6, 6>>)
           /\ cycle.lines[1].ts < users[n].lastSeen
           /\ users[n].online
           /\ users[n].lastLocation = <<5, 5>>

\* C17: a cycle that starts when there is no file, or when the file is empty
\* or has no line newer than the watermark, changes neither the watermark nor
\* any entity and sends no notification; so the cycle after a connect and a
\* later disconnect were processed counts 0 entities online and notifies
\* nobody.
C17_QuiescentCycle ==
    [][(/\ pc = "idle"
        /\ \/ fileState = "absent"
           \/ /\ fileState = "ok"
              /\ NewLines(fileLines, lastUpdateTimestamp) = {})
       => UNCHANGED <<users, lastUpdateTimestamp, sent>>]_vars

\* the file is a connect and a later disconnect of one entity, both
\* processed and the disconnect notified; a further cycle that began at the
\* watermark of the disconnect has completed with nobody online and no
\* second notification
C17_Witness ==
    /\ outcome = "completed"
    /\ pc = "idle"
    /\ Len(cycle.lines) = 2
    /\ cycle.lines[1] = Line(1, ConnMsg("Alice", <<5, 5>>))
    /\ cycle.lines[2] = Line(2, DiscMsg("Alice", <<6, 6>>))
    /\ cycle.start = 2
    /\ lastUpdateTimestamp = 2
    /\ OnlineCount(users) = 0
    /\ presence # <<>>
    /\ presence[Len(presence)] = 0
    /\ Len(sent) = 1
    /\ sent[1].pos = 2

\* C12: the watermark never decreases, in any step of any sequence of
\* cycles, whatever the file holds: lines out of order or older than the
\* watermark, no line at all, or the lines of a file that replaced the one
\* read before.
C12_WatermarkMonotonic ==
    [][lastUpdateTimestamp' >= lastUpdateTimestamp]_vars

\* a cycle notified a line and the watermark moved past it; the file was then
\* replaced, and a cycle has completed on the new file, whose lines are all
\* older than the watermark: the watermark is the one the cycle started from
C12_Witness ==
    /\ outcome = "completed"
    /\ pc = "idle"
    /\ sent # <<>>
    /\ cycle.lines # <<>>
    /\ cycle.lines = fileLines
    /\ \A i \in 1..Len(cycle.lines) : cycle.lines[i].ok /\ cycle.lines[i].ts < lastUpdateTimestamp
    /\ \A k \in 1..Len(sent) :
           /\ sent[k].line.ts <= lastUpdateTimestamp
           /\ sent[k].line \notin {cycle.lines[i] : i \in 1..Len(cycle.lines)}
    /\ cycle.start = lastUpdateTimestamp

\* the state an entity is in after a connect or disconnect line was applied
\* to it while it was older than the line; a line with both markers is a
\* disconnect ("disconnected" is tested first)
StateOf(line) ==
    [online |-> ~line.msg.disc, lastSeen |-> line.ts, lastLocation |-> line.msg.loc]

IsEvent(line) == line.ok /\ (line.msg.disc \/ line.msg.conn)

\* C13: every notification sent is for a disconnect line (a line that has
\* the marker "disconnected" and matches its pattern) and was sent with the
\* toggle enabled, so connect lines and other lines never notify and
\* with the toggle disabled nothing is ever sent; and every entity of the
\* store is in the state given by a connect or disconnect line of the file
\* that names it, so the other lines changed no entity.
C13_OnlyDisconnectsNotify ==
    /\ \A k \in 1..Len(sent) :
           /\ notifyDisconnect
           /\ sent[k].line.msg.disc
           /\ MatchDisconnect(sent[k].line.msg)
    /\ \A n \in DOMAIN users :
           \E i \in 1..Len(fileLines) :
               /\ IsEvent(fileLines[i])
               /\ fileLines[i].msg.quoted = n
               /\ users[n] = StateOf(fileLines[i])

\* with the toggle disabled and a channel to send to, a cycle has completed
\* over a disconnect and a line that is no event, both newer than the
\* watermark it started from: the entity is updated and nothing is sent
C13_Witness ==
    /\ ~notifyDisconnect
    /\ channel # None
    /\ outcome = "completed"
    /\ pc = "idle"
    /\ cycle.lines = fileLines
    /\ cycle.pos = 0
    /\ cycle.start = MinTime
    /\ \E i \in 1..Len(cycle.lines) : cycle.lines[i].msg.disc
    /\ \E i \in 1..Len(cycle.lines) : cycle.lines[i].msg = OtherMsg
    /\ Cardinality(DOMAIN users) = 1
    /\ sent = <<>>

\* C19, as claimed: with the toggle enabled, when a cycle has completed and
\* moved the watermark to or past the timestamp of a disconnect line that was
\* newer than the watermark the cycle started from, a notification for that
\* line has been sent, also when there is no channel.
C19_AdvanceImpliesNotified ==
    (outcome = "completed" /\ notifyDisconnect)
    => \A i \in 1..Len(cycle.lines) :
           (/\ cycle.lines[i].ok
            /\ cycle.lines[i].msg.disc
            /\ cycle.lines[i].ts > cycle.start
            /\ cycle.lines[i].ts <= lastUpdateTimestamp)
           => \E k \in 1..Len(sent) : sent[k].pos = i /\ sent[k].line = cycle.lines[i]

\* C14: once the history is replayed, a step that changes the store or the
\* watermark is a step of the update cycle; and a step of the users or the
\* info command, taken between ticks or while update is suspended at an
\* await, leaves every entity and the watermark as they were, creating no
\* entity for a name the store does not hold.
C14_QueriesReadOnly ==
    [][/\ (usersCommand \/ \E name \in Names : info(name))
          => UNCHANGED <<users, lastUpdateTimestamp>>
       /\ (pc # "start" /\ ~UNCHANGED <<users, lastUpdateTimestamp>>)
          => (TickScan \/ SendDone)]_vars

\* info was asked for a name the store does not hold while update was
\* suspended at the send of a notification, and update is still there: the
\* store holds the notified entity and not the name asked for
C14_Witness ==
    /\ pc = "send"
    /\ probe # NoProbe
    /\ probe.query = "info"
    /\ probe.at = "send"
    /\ probe.name \notin DOMAIN users
    /\ users # NoUsers

\* C15, as claimed: on an append-only file with non-decreasing timestamps,
\* also when lines are appended while a cycle is suspended, every line whose
\* timestamp was later than the watermark when it was appended has been
\* applied by handleLog exactly once when a cycle that read the file with
\* that line in it has completed.
C15_NoGapNoDoubleCount ==
    (outcome = "completed" /\ pc = "idle")
    => \A i \in 1..Len(cycle.lines) :
           probe.marks[i].fresh => probe.marks[i].count = 1

\* the line parses and, if it has a marker, matches the pattern of the marker
WellFormed(line) ==
    /\ line.ok
    /\ line.msg.disc => MatchDisconnect(line.msg)
    /\ (~line.msg.disc /\ line.msg.conn) => MatchConnect(line.msg)

\* no two connect or disconnect lines of the batch for one entity have the
\* same timestamp
DistinctPerEntity(lines) ==
    \A i, j \in 1..Len(lines) :
        (/\ i # j
         /\ IsEvent(lines[i])
         /\ IsEvent(lines[j])
         /\ lines[i].msg.quoted = lines[j].msg.quoted)
        => lines[i].ts # lines[j].ts

\* C16, as claimed: for any batch of lines that the two loops read to the
\* end, reading it last to first as the live cycle does leaves every entity
\* in the state that reading it first to last as loadHistory does leaves it
\* in.
C16_ReverseEqualsForward ==
    (probe.stage = 2 /\ ~probe.forward.raised /\ ~probe.reverse.raised)
    => probe.reverse.users = probe.forward.users

\* C16, amended: the two directions raise on the same batches, those with a
\* line that does not parse or match; on a batch without such a line in
\* which the events of one entity have distinct timestamps they leave the
\* same store.
C16_ReverseEqualsForwardDistinct ==
    probe.stage = 2 =>
        /\ probe.reverse.raised = probe.forward.raised
        /\ probe.forward.raised = (\E i \in 1..Len(fileLines) : ~WellFormed(fileLines[i]))
        /\ (~probe.forward.raised /\ DistinctPerEntity(fileLines))
           => probe.reverse.users = probe.forward.users

\* both loops have read a batch of a disconnect of an entity followed by its
\* earlier connect: in both stores the entity is offline where it left
C16_Witness ==
    /\ probe.stage = 2
    /\ Len(fileLines) = 2
    /\ fileLines[1] = Line(2, DiscMsg("Bob", <<6, 6>>))
    /\ fileLines[2] = Line(1, ConnMsg("Bob", <<5, 5>>))
    /\ ~probe.forward.raised
    /\ probe.forward.users = probe.reverse.users
    /\ probe.reverse.users["Bob"] = StateOf(fileLines[1])

\* C18, as claimed: over any sequence of cycles, including cycles that ended
\* by an exception of the parsing of a line or of a send before the
\* watermark was assigned, no line of the file has two notifications.
C18_AtMostOnce ==
    \A i, j \in 1..Len(sent) : sent[i].pos = sent[j].pos => i = j

====
